---- MODULE Spec2Model ----
(***************************************************************************)
(* Model of obsidian-sync.py: one-way reconciliation of Obsidian grammar   *)
(* notes into an Anki deck through AnkiConnect.                            *)
(*                                                                         *)
(* The remote store (Anki behind AnkiConnect) is an external collaborator: *)
(* every call to it is one step whose answer is chosen nondeterministically*)
(* among the answers the wire protocol allows (transport failure, an error *)
(* string, or a result value, which for some actions is null).             *)
(*                                                                         *)
(* Strings are TLA+ strings.  Modification timestamps are ISO-8601 strings *)
(* in the code and are only ever compared with each other; they are        *)
(* modelled by their rank in lexical order, 0 being the empty/absent value *)
(* (the empty string is the least string and is falsy in Python).          *)
(***************************************************************************)
EXTENDS Integers, Sequences, FiniteSets, TLC

\* ------------------------------------------------------------------ bounds
MaxPrompts == 2
MaxInitNotes == 2
MaxRuns == 2
MaxCards == 2

\* ------------------------------------------------------- program constants
batch_size == 100

ANKI_NOTE_FIELDS ==
  {"AnkiExpression", "EnglishSituationPrompt", "Meaning", "Structure",
   "ExamplesJP", "ExamplesEN", "UsageNotes", "ObsidianFilename",
   "ObsidianModTime", "ObsidianVaultName"}

OBSIDIAN_VAULT_NAME == "Current Notes"

\* ------------------------------------------------------------ Python idiom
\* str.strip() on the strings the model uses: " " is the blank string.
Strip(s) == IF s = " " THEN "" ELSE s

\* Truthiness of a string value ("" and None are falsy).
TruthyStr(s) == s # ""

\* Truthiness of a timestamp value (rank 0 is the empty/absent one).
TruthyTime(t) == t # 0

Min(a, b) == IF a <= b THEN a ELSE b

RECURSIVE SeqToSet(_)
SeqToSet(s) == IF s = <<>> THEN {} ELSE {Head(s)} \cup SeqToSet(Tail(s))

\* [str(p).strip() for p in prompts_raw if str(p).strip()]
RECURSIVE StripNonBlank(_)
StripNonBlank(s) ==
  IF s = <<>> THEN <<>>
  ELSE IF Strip(Head(s)) # "" THEN <<Strip(Head(s))>> \o StripNonBlank(Tail(s))
       ELSE StripNonBlank(Tail(s))

\* ---------------------------------------------------------- source notes
PromptSeed == <<"p1", "p2", "p3", "p4">>
TargetSeed == <<"t1">>

\* Raw englishSituationPrompt lists of the front matter: n distinct prompts,
\* optionally preceded by a blank entry.
RawPromptLists ==
  {SubSeq(PromptSeed, 1, n) : n \in 0..MaxPrompts}
  \cup {<<" ">> \o SubSeq(PromptSeed, 1, n) : n \in 0..(MaxPrompts - 1)}

\* Raw target lists of the front matter (a key the script never reads).
RawTargetLists == {SubSeq(TargetSeed, 1, 1)}

\* os.path.getmtime of a note, as a rank among the timestamps of the model.
LocalTimes == {1, 2}

NotePaths == <<"notes/a.md", "notes/b.md">>

\* filepath.stem
Stem(path) == IF path = "notes/a.md" THEN "a" ELSE "b"

\* A tagged markdown file as find_grammar_notes returns it.  fm is FALSE
\* when extract_yaml_frontmatter yields no mapping.
NoteFile(path, fm, expr, prompts, targets, mtime) ==
  [path |-> path, stem |-> Stem(path), fm |-> fm, ankiExpression |-> expr,
   prompts |-> prompts, targets |-> targets, mtime |-> mtime,
   meaning |-> IF path = "notes/a.md" THEN "meaning-a" ELSE "meaning-b",
   structure |-> "structure", examplesJP |-> "jp", examplesEN |-> "en",
   usageNotes |-> "N/A"]

BrokenNote(path) == NoteFile(path, FALSE, "", <<>>, <<"t1">>, 1)

FirstNotes ==
  {BrokenNote(NotePaths[1])}
  \cup {NoteFile(NotePaths[1], TRUE, e, ps, ts, t) :
          e \in {"", "ga"}, ps \in RawPromptLists, ts \in RawTargetLists,
          t \in LocalTimes}

SecondNotes ==
  {NoteFile(NotePaths[2], TRUE, e, SubSeq(PromptSeed, 1, 1),
            SubSeq(TargetSeed, 1, 1), 1) :
          e \in {"", "ga"}}

\* The lists find_grammar_notes can return: no file, one file, two files.
FileLists ==
  {<<>>} \cup {<<f>> : f \in FirstNotes}
  \cup {<<f, g>> : f \in FirstNotes, g \in SecondNotes}

\* ------------------------------------------------------------ remote store
RemoteFields(expr, prompt, meaning, filename, modtime) ==
  [f \in ANKI_NOTE_FIELDS |->
     CASE f = "AnkiExpression" -> expr
       [] f = "EnglishSituationPrompt" -> prompt
       [] f = "Meaning" -> meaning
       [] f = "ObsidianFilename" -> filename
       [] f = "ObsidianModTime" -> modtime
       [] f = "ObsidianVaultName" -> OBSIDIAN_VAULT_NAME
       [] OTHER -> "old"]

\* Records the deck may hold before the first run.
SeedNotes ==
  <<RemoteFields("ga", "p1", "old", "notes/a.md", 0),
    RemoteFields("ga", "p2", "old", "notes/a.md", 1),
    RemoteFields("ga", "p1", "old", "notes/old.md", 2),
    RemoteFields("zz", "p1", "old", "notes/z.md", 1),
    RemoteFields("", "p1", "old", "notes/a.md", 1)>>

SeedPicks ==
  {<<>>} \cup {<<i>> : i \in 1..Len(SeedNotes)}
  \cup {<<i, j>> : i \in 1..Len(SeedNotes), j \in 1..Len(SeedNotes)}
  \cup {<<i, j, k>> : i \in 1..Len(SeedNotes), j \in 1..Len(SeedNotes),
                      k \in 1..Len(SeedNotes)}

Increasing(p) == \A i \in 1..(Len(p) - 1) : p[i] < p[i + 1]

\* Initial deck contents: up to MaxInitNotes seed records, note ids 1..n.
InitialStores ==
  {[i \in 1..Len(p) |-> [noteId |-> i, fields |-> SeedNotes[p[i]]]] :
     p \in {q \in SeedPicks : Len(q) <= MaxInitNotes /\ Increasing(q)}}

\* ------------------------------------------------------------- extraction
None == [ok |-> FALSE]

\* extract_data_for_anki without the filter of line 267 on blank prompts.
extract_data_for_anki_KeepBlank(f) ==
  IF ~f.fm THEN None
  ELSE
    LET declared == Strip(f.ankiExpression)
        anki_expression == IF declared = "" THEN f.stem ELSE declared
        prompts == f.prompts
    IN IF prompts = <<>> THEN None
       ELSE [ok |-> TRUE,
             ankiExpression |-> anki_expression,
             prompts |-> prompts,
             fields_content |->
               [Meaning |-> Strip(f.meaning),
                Structure |-> Strip(f.structure),
                ExamplesJP |-> f.examplesJP,
                ExamplesEN |-> f.examplesEN,
                UsageNotes |-> Strip(f.usageNotes),
                ObsidianFilename |-> f.path,
                ObsidianModTime |-> f.mtime,
                ObsidianVaultName |-> OBSIDIAN_VAULT_NAME],
             sourceFile |-> f.path]

\* extract_data_for_anki: None, or the note_info dictionary.
extract_data_for_anki(f) ==
  IF ~f.fm THEN None
  ELSE
    LET declared == Strip(f.ankiExpression)
        anki_expression == IF declared = "" THEN f.stem ELSE declared
        prompts == StripNonBlank(f.prompts)
    IN IF prompts = <<>> THEN None
       ELSE [ok |-> TRUE,
             ankiExpression |-> anki_expression,
             prompts |-> prompts,
             fields_content |->
               [Meaning |-> Strip(f.meaning),
                Structure |-> Strip(f.structure),
                ExamplesJP |-> f.examplesJP,
                ExamplesEN |-> f.examplesEN,
                UsageNotes |-> Strip(f.usageNotes),
                ObsidianFilename |-> f.path,
                ObsidianModTime |-> f.mtime,
                ObsidianVaultName |-> OBSIDIAN_VAULT_NAME],
             sourceFile |-> f.path]

\* ---------------------------------------------------------------- client
\* Python's None, and a non-None value.
PyNone == [null |-> TRUE]
Value(v) == [null |-> FALSE, value |-> v]

\* What the store can answer to one request.  transport = FALSE stands for
\* a timeout, a refused connection, an HTTP error or an undecodable body.
\* error is "" when the response carries no error.  result is the JSON
\* result of the response, PyNone when it is null.
Response(transport, error, result) ==
  [transport |-> transport, error |-> error, result |-> result]

TransportFailure == Response(FALSE, "", PyNone)
ErrorResponse(message) == Response(TRUE, message, PyNone)
ResultResponse(result) == Response(TRUE, "", result)

\* The store carried the request out.
Answered(r) == r.transport /\ r.error = ""

\* invoke_anki_connect: the value handed to the caller.
invoke_anki_connect(r) ==
  IF ~r.transport THEN PyNone
  ELSE IF TruthyStr(r.error) THEN PyNone
  ELSE r.result

\* ------------------------------------------------------- startup checks
\* check_or_create_deck, from the answers to deckNames and createDeck.
\* deck_names and create_result are what invoke_anki_connect returned; a
\* deckNames value is TRUE when the listing contains the deck.
check_or_create_deck(deck_names, create_result) ==
  IF deck_names.null THEN FALSE
  ELSE IF ~deck_names.value THEN ~create_result.null
  ELSE TRUE

\* validate_note_type without the test on the fields of lines 149-153.
validate_note_type_NamesOnly(model_names, field_names) ==
  IF model_names.null THEN FALSE
  ELSE IF ~model_names.value THEN FALSE
  ELSE ~field_names.null

\* validate_note_type, from the answers to modelNames and modelFieldNames.
\* A modelNames value is TRUE when the listing contains the note type, a
\* modelFieldNames value is the set of field names of the note type.
validate_note_type(model_names, field_names) ==
  IF model_names.null THEN FALSE
  ELSE IF ~model_names.value THEN FALSE
  ELSE IF field_names.null THEN FALSE
  ELSE {f \in ANKI_NOTE_FIELDS : f \notin field_names.value} = {}

\* ---------------------------------------------------------------- snapshot
EmptyDict == [e \in {} |-> <<>>]

\* The loop body of get_existing_anki_notes_info over one notesInfo batch.
RECURSIVE GroupNotes(_, _)
GroupNotes(existing_notes, batch) ==
  IF batch = <<>> THEN existing_notes
  ELSE
    LET note == Head(batch)
        expression == note.fields["AnkiExpression"]
        entry == [noteId |-> note.noteId,
                  obsidianModTime |-> note.fields["ObsidianModTime"],
                  obsidianFilename |-> note.fields["ObsidianFilename"],
                  prompt |-> note.fields["EnglishSituationPrompt"]]
    IN IF ~TruthyStr(expression) THEN GroupNotes(existing_notes, Tail(batch))
       ELSE
         LET prev == IF expression \in DOMAIN existing_notes
                     THEN existing_notes[expression] ELSE <<>>
         IN GroupNotes(
              [e \in (DOMAIN existing_notes) \cup {expression} |->
                 IF e = expression THEN Append(prev, entry)
                 ELSE existing_notes[e]],
              Tail(batch))

\* Store records whose id is in ids, in store order (a notesInfo result).
RECURSIVE NotesWithIds(_, _)
NotesWithIds(store, ids) ==
  IF store = <<>> THEN <<>>
  ELSE IF Head(store).noteId \in ids
       THEN <<Head(store)>> \o NotesWithIds(Tail(store), ids)
       ELSE NotesWithIds(Tail(store), ids)

\* Store without the records whose id is in ids (deleteNotes carried out).
RECURSIVE RemoveIds(_, _)
RemoveIds(store, ids) ==
  IF store = <<>> THEN <<>>
  ELSE IF Head(store).noteId \in ids THEN RemoveIds(Tail(store), ids)
       ELSE <<Head(store)>> \o RemoveIds(Tail(store), ids)

\* ----------------------------------------------------------- the decision
\* update_needed without the filename comparison of lines 718-722.
update_needed_TimeOnly(obsidian_note_data, anki_note_list) ==
  LET obsidian_mod_time == obsidian_note_data.fields_content.ObsidianModTime
      anki_mod_time == anki_note_list[1].obsidianModTime
  IN IF TruthyTime(anki_mod_time)
     THEN obsidian_mod_time > anki_mod_time
     ELSE TRUE

\* main, lines 709-722: does an identifier present in the snapshot need a
\* delete-and-recreate?
update_needed(obsidian_note_data, anki_note_list) ==
  LET obsidian_mod_time == obsidian_note_data.fields_content.ObsidianModTime
      anki_mod_time == anki_note_list[1].obsidianModTime
      by_time == IF TruthyTime(anki_mod_time)
                 THEN obsidian_mod_time > anki_mod_time
                 ELSE TRUE
      anki_filename == anki_note_list[1].obsidianFilename
      obsidian_filename == obsidian_note_data.fields_content.ObsidianFilename
  IN by_time \/ anki_filename # obsidian_filename

\* main, lines 708-743: the branch taken for an extracted note.
Decision(obsidian_note_data, existing) ==
  IF obsidian_note_data.ankiExpression \in DOMAIN existing
  THEN IF update_needed(obsidian_note_data,
                        existing[obsidian_note_data.ankiExpression])
       THEN "Replace" ELSE "Skip"
  ELSE "Create"

\* note_ids_to_delete keeping only the first record of the group.
note_ids_to_delete_FirstOnly(existing_anki_notes_list) ==
  IF existing_anki_notes_list = <<>> THEN <<>>
  ELSE <<existing_anki_notes_list[1].noteId>>

\* update_notes_in_anki, line 380.
note_ids_to_delete(existing_anki_notes_list) ==
  [i \in 1..Len(existing_anki_notes_list) |->
     existing_anki_notes_list[i].noteId]

\* delete_aborts that goes on to the creates whatever deleteNotes returned.
delete_aborts_Never(delete_result) == FALSE

\* update_notes_in_anki, lines 391-393: the update is abandoned when
\* deleteNotes returned None.
delete_aborts(delete_result) == delete_result.null

\* main, lines 728-732: the error increment after update_notes_in_anki.
\* Note ids are positive, so any(note['noteId'] ...) holds of every group.
UpdateErrorIncrement(added, anki_note_list) ==
  IF added > 0 THEN 0
  ELSE IF ~(\E i \in 1..Len(anki_note_list) : anki_note_list[i].noteId # 0)
       THEN 1 ELSE 0

\* main, lines 742-743: the error increment after add_new_notes_to_anki.
CreateErrorIncrement(added) == IF added = 0 THEN 1 ELSE 0

\* OrphanedExpressions that forgets to subtract the processed identifiers.
OrphanedExpressions_All(existing, processed) == DOMAIN existing

\* main, line 752.
OrphanedExpressions(existing, processed) == (DOMAIN existing) \ processed

\* ------------------------------------------------------------- add notes
\* final_fields that puts the note's first prompt into every payload.
final_fields_FirstPrompt(obsidian_note_info, prompt) ==
  LET fc == obsidian_note_info.fields_content
  IN [f \in ANKI_NOTE_FIELDS |->
        CASE f = "AnkiExpression" -> obsidian_note_info.ankiExpression
          [] f = "EnglishSituationPrompt" -> obsidian_note_info.prompts[1]
          [] f = "Meaning" -> fc.Meaning
          [] f = "Structure" -> fc.Structure
          [] f = "ExamplesJP" -> fc.ExamplesJP
          [] f = "ExamplesEN" -> fc.ExamplesEN
          [] f = "UsageNotes" -> fc.UsageNotes
          [] f = "ObsidianFilename" -> fc.ObsidianFilename
          [] f = "ObsidianModTime" -> fc.ObsidianModTime
          [] f = "ObsidianVaultName" -> fc.ObsidianVaultName]

\* add_new_notes_to_anki, lines 576-580: the fields of one payload.
final_fields(obsidian_note_info, prompt) ==
  LET fc == obsidian_note_info.fields_content
  IN [f \in ANKI_NOTE_FIELDS |->
        CASE f = "AnkiExpression" -> obsidian_note_info.ankiExpression
          [] f = "EnglishSituationPrompt" -> prompt
          [] f = "Meaning" -> fc.Meaning
          [] f = "Structure" -> fc.Structure
          [] f = "ExamplesJP" -> fc.ExamplesJP
          [] f = "ExamplesEN" -> fc.ExamplesEN
          [] f = "UsageNotes" -> fc.UsageNotes
          [] f = "ObsidianFilename" -> fc.ObsidianFilename
          [] f = "ObsidianModTime" -> fc.ObsidianModTime
          [] f = "ObsidianVaultName" -> fc.ObsidianVaultName]

\* SkipPair with the both-empty test of line 604 only.
SkipPair_BothOnly(fields, prompt) ==
  /\ ~TruthyStr(Strip(fields["AnkiExpression"]))
  /\ ~TruthyStr(Strip(fields["EnglishSituationPrompt"]))

\* add_new_notes_to_anki, lines 584-607: is the pair dropped before any
\* request is made?
SkipPair(fields, prompt) ==
  LET is_an_expression_empty == ~TruthyStr(Strip(fields["AnkiExpression"]))
      is_prompt_empty == ~TruthyStr(Strip(fields["EnglishSituationPrompt"]))
  IN IF ~TruthyStr(prompt) THEN TRUE
     ELSE is_an_expression_empty /\ is_prompt_empty

\* add_new_notes_to_anki, lines 610-624.
note_payload(fields) ==
  [fields |-> fields, options |-> [allowDuplicate |-> TRUE]]

\* AddNoteCounts that leaves a failed request out of the failed count.
AddNoteCounts_FailureUncounted(result, last_error) ==
  IF ~result.null THEN [added |-> 1, failed |-> 0]
  ELSE [added |-> 0, failed |-> 0]

\* add_new_notes_to_anki, lines 629-642: the (added, failed) increments for
\* the value addNote returned and the value getLastError returned.
AddNoteCounts(result, last_error) ==
  IF ~result.null THEN [added |-> 1, failed |-> 0]
  ELSE IF ~last_error.null /\ last_error.value = "duplicate"
       THEN [added |-> 0, failed |-> 1]
  ELSE IF ~last_error.null /\ last_error.value = "empty"
       THEN [added |-> 0, failed |-> 1]
  ELSE [added |-> 0, failed |-> 1]

\* --------------------------------------------------------- study analysis
\* Defaults of analyze_study_data's parameters.
days_recent == 7
struggle_lapses == 3
struggle_ease_factor == 2000
due_soon_days_default == 3

\* The strings that occur in a study record, in Python's string order.
StringOrder ==
  <<"", "N/A", "a", "b", "ga", "notes/a.md", "notes/b.md", "notes/old.md",
    "notes/z.md", "p1", "p2", "p3", "p4", "zz">>

StrRank(str) == CHOOSE i \in 1..Len(StringOrder) : StringOrder[i] = str

\* A card as the cardsInfo action describes it.  type is Anki's card type
\* (0 new, 1 learning, 2 review), a key that get_anki_study_data does not
\* read.  due and mod are day numbers counted from 1970-01-01; mod is 0 when
\* the card has no modification time.
Card(cardId, note, t) ==
  [cardId |-> cardId, note |-> note, interval |-> t.interval, due |-> t.due,
   lapses |-> t.lapses, reps |-> t.reps, factor |-> t.factor, mod |-> t.mod,
   type |-> t.type]

\* get_anki_study_data, lines 426-456: the study records built from the
\* cardsInfo result and the notesInfo result (PyNone when the request
\* failed).
RECURSIVE study_records(_, _)
study_records(cards, notes_info_list) ==
  IF cards = <<>> THEN <<>>
  ELSE
    LET card == Head(cards)
        rest == study_records(Tail(cards), notes_info_list)
        found == IF notes_info_list.null THEN {}
                 ELSE {i \in 1..Len(notes_info_list.value) :
                         notes_info_list.value[i].noteId = card.note}
    IN IF found = {} THEN rest
       ELSE
         LET fields == notes_info_list.value[CHOOSE i \in found : TRUE].fields
             filename == fields["ObsidianFilename"]
             vault_name == fields["ObsidianVaultName"]
         IN IF ~TruthyStr(filename) \/ ~TruthyStr(vault_name) THEN rest
            ELSE <<[cardId |-> card.cardId, noteId |-> card.note,
                    ankiExpression |-> fields["AnkiExpression"],
                    obsidianFilename |-> filename,
                    obsidianVaultName |-> vault_name,
                    englishSituationPrompt |-> fields["EnglishSituationPrompt"],
                    interval |-> card.interval, due |-> card.due,
                    lapses |-> card.lapses, reps |-> card.reps,
                    easeFactor |-> card.factor,
                    lastReview |-> card.mod]>> \o rest

\* analyze_study_data, line 471.
identifier_tuple(card) ==
  <<card.obsidianFilename, card.englishSituationPrompt, card.ankiExpression>>

\* analyze_study_data, lines 473-477.
is_recent(card, now_day, recent_days) ==
  card.lastReview # 0 /\ now_day - card.lastReview <= recent_days

\* analyze_study_data, lines 481-483.
is_struggling(card, lapses_limit, ease_limit) ==
  \/ card.lapses >= lapses_limit
  \/ (card.easeFactor < ease_limit /\ card.reps > 0)

\* is_due_soon with the window open at its far end.
is_due_soon_OpenWindow(card, today_anki_epoch_approx, window) ==
  /\ 0 < card.due - today_anki_epoch_approx
  /\ card.due - today_anki_epoch_approx < window

\* analyze_study_data, line 487.
is_due_soon(card, today_anki_epoch_approx, window) ==
  /\ 0 < card.due - today_anki_epoch_approx
  /\ card.due - today_anki_epoch_approx <= window

\* Order of the sort key of line 493, (x[2], x[0], x[1]) in Python's
\* 0-based indexing.
KeyBefore(x, y) ==
  \/ StrRank(x[3]) < StrRank(y[3])
  \/ /\ x[3] = y[3]
     /\ \/ StrRank(x[1]) < StrRank(y[1])
        \/ (x[1] = y[1] /\ StrRank(x[2]) < StrRank(y[2]))

\* sorted_bucket that sorts on the tuple itself, (x[0], x[1], x[2]).
RECURSIVE sorted_bucket_TupleOrder(_)
sorted_bucket_TupleOrder(tuples) ==
  IF tuples = {} THEN <<>>
  ELSE
    LET before(x, y) ==
          \/ StrRank(x[1]) < StrRank(y[1])
          \/ /\ x[1] = y[1]
             /\ \/ StrRank(x[2]) < StrRank(y[2])
                \/ (x[2] = y[2] /\ StrRank(x[3]) < StrRank(y[3]))
        first == CHOOSE x \in tuples : \A y \in tuples \ {x} : before(x, y)
    IN <<first>> \o sorted_bucket_TupleOrder(tuples \ {first})

\* analyze_study_data, line 493: sorted(list(value), key=...).
RECURSIVE sorted_bucket(_)
sorted_bucket(tuples) ==
  IF tuples = {} THEN <<>>
  ELSE
    LET first == CHOOSE x \in tuples : \A y \in tuples \ {x} : KeyBefore(x, y)
    IN <<first>> \o sorted_bucket(tuples \ {first})

\* analyze_study_data: the three buckets for a list of study records.
analyze_study_data(records, now_day, recent, lapses, ease, window) ==
  LET cards == {records[i] : i \in 1..Len(records)}
  IN [recent |->
        sorted_bucket({identifier_tuple(c) :
                         c \in {d \in cards : is_recent(d, now_day, recent)}}),
      struggling |->
        sorted_bucket({identifier_tuple(c) :
                         c \in {d \in cards :
                                  is_struggling(d, lapses, ease)}}),
      due_soon |->
        sorted_bucket({identifier_tuple(c) :
                         c \in {d \in cards : is_due_soon(d, now_day, window)}})]

\* ------------------------------------------------------------- the report
\* urllib.parse.quote(s, safe='') on the strings a report links to.
Quote(str) ==
  CASE str = "notes/a.md" -> "notes%2Fa.md"
    [] str = "notes/b.md" -> "notes%2Fb.md"
    [] str = "notes/old.md" -> "notes%2Fold.md"
    [] str = "notes/z.md" -> "notes%2Fz.md"
    [] str = "Current Notes" -> "Current%20Notes"
    [] OTHER -> str

\* filename.split('/')[-1]
LastPart(filename) ==
  CASE filename = "notes/a.md" -> "a.md"
    [] filename = "notes/b.md" -> "b.md"
    [] filename = "notes/old.md" -> "old.md"
    [] filename = "notes/z.md" -> "z.md"
    [] OTHER -> filename

\* generate_obsidian_report, lines 506-511 and 526-528: the line of a tuple.
LinkLine(t) ==
  [kind |-> "link", prompt |-> t[2], name |-> LastPart(t[1]),
   vault |-> Quote(OBSIDIAN_VAULT_NAME), file |-> Quote(t[1])]

\* generate_obsidian_report, lines 522-529: the lines of one section.  A
\* heading line is written whenever the expression differs from that of the
\* tuple before.
RECURSIVE SectionLines(_, _)
SectionLines(bucket, last_expr) ==
  IF bucket = <<>> THEN <<>>
  ELSE
    LET t == Head(bucket)
        heading == IF last_expr.null \/ last_expr.value # t[3]
                   THEN <<[kind |-> "heading", expression |-> t[3]]>>
                   ELSE <<>>
    IN heading \o <<LinkLine(t)>> \o SectionLines(Tail(bucket), Value(t[3]))

Section(bucket) ==
  IF bucket # <<>> THEN SectionLines(bucket, PyNone)
  ELSE <<[kind |-> "none"]>>

\* generate_obsidian_report: the content written to the report file.
generate_obsidian_report(buckets) ==
  [recent |-> Section(buckets.recent),
   struggling |-> Section(buckets.struggling),
   due_soon |-> Section(buckets.due_soon)]

\* =================================================================== state
VARIABLES
  pc,                        \* position in main / in the called function
  run,                       \* number of the current run of the script
  exit_code,                 \* what main returned (-1 while running)
  anki,                      \* the deck: sequence of [noteId, fields]
  nextId,                    \* the id Anki gives to the next created note
  firstFreshId,              \* nextId when the current run started
  files,                     \* obsidian_files
  note_ids,                  \* get_existing_anki_notes_info: findNotes result
  batch_start,               \* get_existing_anki_notes_info: loop index i
  existing_anki_notes,       \* the snapshot: expression -> list of entries
  processed_files_count,
  total_added_notes_count,
  updated_expressions_count,
  skipped_expressions_count,
  error_files_count,
  processed_expressions,
  orphaned_expressions,
  obsidian_note_data,        \* the note_info being synchronised
  op,                        \* branch of main in progress: Create / Replace
  prompt_index,              \* add_new_notes_to_anki: position in prompts
  added_count,
  failed_count,
  pair_log,                  \* history: per pair of the loop, was a request made
  calls,                     \* history: addNote / deleteNotes requests of the run
  notes_log,                 \* history: one entry per scanned file of the run
  all_answered,              \* history: every request so far was carried out
  all_returned,              \* history: every request so far returned a value
  startup_failed,            \* history: a startup request of the run was refused
  now,                       \* datetime.now() of the run, as a day number
  due_soon_days,             \* analyze_study_data: the due_soon_days argument
  cards_info,                \* get_anki_study_data: the cardsInfo result
  study_data,                \* main: what get_anki_study_data returned
  analysis,                  \* main: analysis_results
  report                     \* the report file

vars ==
  <<pc, run, exit_code, anki, nextId, firstFreshId, files, note_ids,
    batch_start, existing_anki_notes, processed_files_count,
    total_added_notes_count, updated_expressions_count,
    skipped_expressions_count, error_files_count, processed_expressions,
    orphaned_expressions, obsidian_note_data, op, prompt_index, added_count,
    failed_count, pair_log, calls, notes_log, all_answered, all_returned,
    startup_failed, now, due_soon_days, cards_info, study_data, analysis,
    report>>

storeVars == <<anki, nextId>>
snapshotVars == <<note_ids, batch_start, existing_anki_notes>>
counterVars ==
  <<processed_files_count, total_added_notes_count,
    updated_expressions_count, skipped_expressions_count, error_files_count,
    processed_expressions, orphaned_expressions>>
addVars ==
  <<obsidian_note_data, op, prompt_index, added_count, failed_count, pair_log>>
historyVars == <<calls, notes_log>>
flagVars == <<all_answered, all_returned>>
studyVars == <<cards_info, study_data, analysis>>
reportVars == <<now, due_soon_days, report>>

\* The report file before the script has ever written it.
NoReport == [written |-> FALSE]

\* analysis_results before analyze_study_data has been called.
NoAnalysis == [recent |-> <<>>, struggling |-> <<>>, due_soon |-> <<>>]

\* The day the script runs on, counted from 1970-01-01.
RunDays == {104}

\* The state main starts from, for a given deck and directory content.
StartOfRun(store, next, file_list, r) ==
  /\ pc = "version"
  /\ run = r
  /\ exit_code = -1
  /\ anki = store
  /\ nextId = next
  /\ firstFreshId = next
  /\ files = file_list
  /\ note_ids = <<>>
  /\ batch_start = 0
  /\ existing_anki_notes = EmptyDict
  /\ processed_files_count = 0
  /\ total_added_notes_count = 0
  /\ updated_expressions_count = 0
  /\ skipped_expressions_count = 0
  /\ error_files_count = 0
  /\ processed_expressions = {}
  /\ orphaned_expressions = {}
  /\ obsidian_note_data = None
  /\ op = "none"
  /\ prompt_index = 0
  /\ added_count = 0
  /\ failed_count = 0
  /\ pair_log = <<>>
  /\ calls = <<>>
  /\ notes_log = <<>>
  /\ startup_failed = FALSE
  /\ cards_info = <<>>
  /\ study_data = <<>>
  /\ analysis = NoAnalysis

Init ==
  \E store \in InitialStores, file_list \in FileLists, day \in RunDays :
    /\ StartOfRun(store, Len(store) + 1, file_list, 1)
    /\ all_answered = TRUE
    /\ all_returned = TRUE
    /\ now = day
    /\ due_soon_days = due_soon_days_default
    /\ report = NoReport

\* ---------------------------------------------------------- startup checks
Fatal ==
  /\ pc' = "done"
  /\ exit_code' = 1

\* main, lines 663-665.
CheckVersion ==
  /\ pc = "version"
  /\ \E r \in {TransportFailure, ResultResponse(Value(6))} :
       /\ all_answered' = (all_answered /\ Answered(r))
       /\ all_returned' = (all_returned /\ ~invoke_anki_connect(r).null)
       /\ startup_failed' = ~Answered(r)
       /\ IF invoke_anki_connect(r).null
          THEN Fatal
          ELSE pc' = "deck" /\ UNCHANGED exit_code
  /\ UNCHANGED <<run, storeVars, firstFreshId, files, snapshotVars,
                 counterVars, addVars, historyVars, studyVars, reportVars>>

\* main, lines 667-669.
CheckDeck ==
  /\ pc = "deck"
  /\ \E names \in {TransportFailure, ResultResponse(Value(FALSE)),
                   ResultResponse(Value(TRUE))},
        created \in {ErrorResponse("deck name conflicts"),
                     ResultResponse(Value(1))} :
       LET asked == ~invoke_anki_connect(names).null
                    /\ ~invoke_anki_connect(names).value
       IN /\ all_answered' =
               (all_answered /\ Answered(names)
                /\ (asked => Answered(created)))
          /\ all_returned' =
               (all_returned /\ ~invoke_anki_connect(names).null
                /\ (asked => ~invoke_anki_connect(created).null))
          /\ startup_failed' =
               (\/ ~Answered(names)
                \/ (~names.result.value /\ ~Answered(created)))
          /\ IF check_or_create_deck(invoke_anki_connect(names),
                                     invoke_anki_connect(created))
             THEN pc' = "notetype" /\ UNCHANGED exit_code
             ELSE Fatal
  /\ UNCHANGED <<run, storeVars, firstFreshId, files, snapshotVars,
                 counterVars, addVars, historyVars, studyVars, reportVars>>

\* main, lines 671-673.
ValidateNoteType ==
  /\ pc = "notetype"
  /\ \E names \in {TransportFailure, ResultResponse(Value(FALSE)),
                   ResultResponse(Value(TRUE))},
        fields \in {TransportFailure,
                    ResultResponse(Value(ANKI_NOTE_FIELDS \ {"ObsidianModTime"})),
                    ResultResponse(Value(ANKI_NOTE_FIELDS \cup {"Extra"}))} :
       LET asked == ~invoke_anki_connect(names).null
                    /\ invoke_anki_connect(names).value
       IN /\ all_answered' =
               (all_answered /\ Answered(names)
                /\ (asked => Answered(fields)))
          /\ all_returned' =
               (all_returned /\ ~invoke_anki_connect(names).null
                /\ (asked => ~invoke_anki_connect(fields).null))
          /\ startup_failed' =
               (\/ ~Answered(names)
                \/ ~names.result.value
                \/ ~Answered(fields)
                \/ \E f \in ANKI_NOTE_FIELDS : f \notin fields.result.value)
          /\ IF validate_note_type(invoke_anki_connect(names),
                                   invoke_anki_connect(fields))
             THEN pc' = "find" /\ UNCHANGED exit_code
             ELSE Fatal
  /\ UNCHANGED <<run, storeVars, firstFreshId, files, snapshotVars,
                 counterVars, addVars, historyVars, studyVars, reportVars>>

\* ---------------------------------------------------------------- snapshot
StoreIds(store) == [i \in 1..Len(store) |-> store[i].noteId]

\* get_existing_anki_notes_info, lines 325-333: the findNotes request.
FindNotes ==
  /\ pc = "find"
  /\ \E r \in {TransportFailure, ResultResponse(Value(StoreIds(anki)))} :
       LET found == invoke_anki_connect(r)
       IN /\ all_answered' = (all_answered /\ Answered(r))
          /\ all_returned' = (all_returned /\ ~found.null)
          /\ IF found.null \/ found.value = <<>>
             THEN /\ pc' = "scan"
                  /\ note_ids' = <<>>
             ELSE /\ pc' = "fetch"
                  /\ note_ids' = found.value
          /\ batch_start' = 0
          /\ existing_anki_notes' = EmptyDict
  /\ UNCHANGED <<startup_failed, studyVars, reportVars, run, exit_code,
                 storeVars, firstFreshId, files, counterVars,
                 addVars, historyVars>>

\* get_existing_anki_notes_info, lines 337-368: one notesInfo batch.
FetchBatch ==
  /\ pc = "fetch"
  /\ LET batch_ids == SubSeq(note_ids, batch_start + 1,
                             Min(batch_start + batch_size, Len(note_ids)))
     IN \E r \in {TransportFailure,
                  ResultResponse(Value(NotesWithIds(anki, SeqToSet(batch_ids))))} :
          LET notes_info_batch == invoke_anki_connect(r)
          IN /\ all_answered' = (all_answered /\ Answered(r))
             /\ all_returned' = (all_returned /\ ~notes_info_batch.null)
             /\ IF ~notes_info_batch.null /\ notes_info_batch.value # <<>>
                THEN existing_anki_notes' =
                       GroupNotes(existing_anki_notes, notes_info_batch.value)
                ELSE UNCHANGED existing_anki_notes
  /\ batch_start' = batch_start + batch_size
  /\ pc' = IF batch_start + batch_size < Len(note_ids) THEN "fetch" ELSE "scan"
  /\ UNCHANGED <<startup_failed, studyVars, reportVars, run, exit_code,
                 storeVars, firstFreshId, files, note_ids,
                 counterVars, addVars, historyVars>>

\* --------------------------------------------------------------- scan loop
LogEntry(extracted, expression, decision, added, failed, errors, done) ==
  [extracted |-> extracted, expression |-> expression, decision |-> decision,
   added |-> added, failed |-> failed, errors |-> errors, done |-> done]

\* files_left that lets the loop body run for the first file only.
files_left_OnlyFirst(processed, obsidian_files) ==
  processed < Min(1, Len(obsidian_files))

\* main, line 692: does the for loop have another file to visit?
files_left(processed, obsidian_files) == processed < Len(obsidian_files)

\* main, lines 692-736: one iteration of the loop up to its first request.
ScanFile ==
  /\ pc = "scan"
  /\ files_left(processed_files_count, files)
  /\ processed_files_count' = processed_files_count + 1
  /\ LET data == extract_data_for_anki(files[processed_files_count + 1])
     IN IF ~data.ok
        THEN /\ error_files_count' = error_files_count + 1
             /\ notes_log' = Append(notes_log,
                                    LogEntry(FALSE, "", "Failed", 0, 0, 1, TRUE))
             /\ UNCHANGED <<pc, processed_expressions,
                            skipped_expressions_count, addVars>>
        ELSE
          LET expression == data.ankiExpression
              decision == Decision(data, existing_anki_notes)
          IN /\ processed_expressions' = processed_expressions \cup {expression}
             /\ notes_log' = Append(notes_log,
                                    LogEntry(TRUE, expression, decision, 0, 0, 0,
                                             decision = "Skip"))
             /\ UNCHANGED error_files_count
             /\ IF decision = "Skip"
                THEN /\ skipped_expressions_count' = skipped_expressions_count + 1
                     /\ UNCHANGED <<pc, addVars>>
                ELSE /\ obsidian_note_data' = data
                     /\ op' = decision
                     /\ prompt_index' = 1
                     /\ added_count' = 0
                     /\ failed_count' = 0
                     /\ pair_log' = <<>>
                     /\ pc' = IF decision = "Replace"
                                 /\ note_ids_to_delete(
                                      existing_anki_notes[expression]) # <<>>
                              THEN "delete" ELSE "add"
                     /\ UNCHANGED skipped_expressions_count
  /\ UNCHANGED <<startup_failed, studyVars, reportVars, run, exit_code,
                 storeVars, firstFreshId, files, snapshotVars,
                 total_added_notes_count, updated_expressions_count,
                 orphaned_expressions, calls, flagVars>>

\* main, lines 727-745: back in main with the count the operation returned.
ReturnToMain(added, failed) ==
  LET n == processed_files_count
      errors == IF op = "Replace"
                THEN UpdateErrorIncrement(
                       added,
                       existing_anki_notes[obsidian_note_data.ankiExpression])
                ELSE CreateErrorIncrement(added)
  IN /\ updated_expressions_count' =
          IF op = "Replace" /\ added > 0
          THEN updated_expressions_count + 1 ELSE updated_expressions_count
     /\ error_files_count' = error_files_count + errors
     /\ total_added_notes_count' = total_added_notes_count + added
     /\ notes_log' = [notes_log EXCEPT ![n].added = added,
                                       ![n].failed = failed,
                                       ![n].errors = errors,
                                       ![n].done = TRUE]
     /\ pc' = "scan"
     /\ obsidian_note_data' = None
     /\ op' = "none"
     /\ prompt_index' = 0
     /\ added_count' = 0
     /\ failed_count' = 0
     /\ pair_log' = <<>>

\* What Anki can do with a deleteNotes request for ids: carry it out (the
\* result is null in AnkiConnect's protocol, a value in a store that reports
\* one), reject it after removing only the first of several notes, or never
\* answer, leaving the deck untouched.
DeleteAnswers(ids) ==
  {[response |-> ResultResponse(PyNone), removed |-> SeqToSet(ids)],
   [response |-> ResultResponse(Value(TRUE)), removed |-> SeqToSet(ids)],
   [response |-> TransportFailure, removed |-> {}]}
  \cup {[response |-> ErrorResponse("failed"), removed |-> {ids[1]}] :
          x \in {y \in {1} : Len(ids) > 1}}

\* update_notes_in_anki, lines 388-397: the deleteNotes request.
DeleteNotes ==
  /\ pc = "delete"
  /\ LET expression == obsidian_note_data.ankiExpression
         ids == note_ids_to_delete(existing_anki_notes[expression])
     IN \E a \in DeleteAnswers(ids) :
          LET delete_result == invoke_anki_connect(a.response)
          IN /\ anki' = RemoveIds(anki, a.removed)
             /\ all_answered' = (all_answered /\ Answered(a.response))
             /\ all_returned' = (all_returned /\ ~delete_result.null)
             /\ calls' = Append(calls,
                  [action |-> "deleteNotes", file |-> processed_files_count,
                   op |-> op, expression |-> expression, notes |-> ids,
                   response |-> a.response, returned |-> delete_result])
             /\ IF delete_aborts(delete_result)
                THEN /\ ReturnToMain(0, 0)
                ELSE /\ pc' = "add"
                     /\ UNCHANGED <<addVars, updated_expressions_count,
                                    error_files_count, total_added_notes_count,
                                    notes_log>>
  /\ UNCHANGED <<startup_failed, studyVars, reportVars, run, exit_code,
                 nextId, firstFreshId, files, snapshotVars,
                 processed_files_count, skipped_expressions_count,
                 processed_expressions, orphaned_expressions>>

\* What Anki can answer to an addNote request.
AddAnswers ==
  {ResultResponse(Value(nextId)),
   ErrorResponse("duplicate"),
   TransportFailure}

\* What the getLastError request made after a failed addNote can return.
LastErrors == {PyNone, Value("duplicate"), Value("empty")}

\* add_new_notes_to_anki, lines 575-645: one iteration of the loop.
AddNote ==
  /\ pc = "add"
  /\ prompt_index <= Len(obsidian_note_data.prompts)
  /\ prompt_index' = prompt_index + 1
  /\ LET prompt == obsidian_note_data.prompts[prompt_index]
         fields == final_fields(obsidian_note_data, prompt)
     IN /\ pair_log' = Append(pair_log, ~SkipPair(fields, prompt))
        /\ IF SkipPair(fields, prompt)
           THEN /\ failed_count' = failed_count + 1
                /\ UNCHANGED <<storeVars, added_count, calls, flagVars>>
           ELSE \E r \in AddAnswers, last_error \in LastErrors :
                  LET result == invoke_anki_connect(r)
                      counts == AddNoteCounts(result, last_error)
                  IN /\ IF Answered(r)
                        THEN /\ anki' = Append(anki, [noteId |-> nextId,
                                                      fields |-> fields])
                             /\ nextId' = nextId + 1
                        ELSE UNCHANGED storeVars
                     /\ added_count' = added_count + counts.added
                     /\ failed_count' = failed_count + counts.failed
                     /\ all_answered' = (all_answered /\ Answered(r))
                     /\ all_returned' = (all_returned /\ ~result.null)
                     /\ calls' = Append(calls,
                          [action |-> "addNote", file |-> processed_files_count,
                           op |-> op,
                           expression |-> obsidian_note_data.ankiExpression,
                           note |-> note_payload(fields),
                           response |-> r, returned |-> result])
  /\ UNCHANGED <<startup_failed, studyVars, reportVars, pc, run, exit_code,
                 firstFreshId, files, snapshotVars,
                 counterVars, obsidian_note_data, op, notes_log>>

\* add_new_notes_to_anki, line 648, and main, lines 728-745.
AddReturn ==
  /\ pc = "add"
  /\ op \in {"Create", "Replace"}
  /\ prompt_index > Len(obsidian_note_data.prompts)
  /\ ReturnToMain(added_count, failed_count)
  /\ UNCHANGED <<startup_failed, studyVars, reportVars, run, exit_code,
                 storeVars, firstFreshId, files, snapshotVars,
                 processed_files_count, skipped_expressions_count,
                 processed_expressions, orphaned_expressions, calls,
                 flagVars>>

\* main, lines 750-761: the orphan report.
CheckOrphans ==
  /\ pc = "scan"
  /\ ~files_left(processed_files_count, files)
  /\ orphaned_expressions' =
       OrphanedExpressions(existing_anki_notes, processed_expressions)
  /\ pc' = "study"
  /\ UNCHANGED <<startup_failed, studyVars, reportVars, run, exit_code,
                 storeVars, firstFreshId, files, snapshotVars,
                 processed_files_count, total_added_notes_count,
                 updated_expressions_count, skipped_expressions_count,
                 error_files_count, processed_expressions, addVars,
                 historyVars, flagVars>>

\* ------------------------------------------------------ study and report
\* main, lines 780-785: the normal return.
ReturnZero ==
  /\ pc' = "done"
  /\ exit_code' = 0

\* The cards of the deck as cardsInfo describes them: one card per note.  In
\* a run of the whole script the scheduling data of a card follows from its
\* note: the card of a "p1" note is a review card due tomorrow that was
\* reviewed yesterday, the card of another note is a new card in tomorrow's
\* position that lapsed three times.
CardsOf(store, day) ==
  [i \in 1..Len(store) |->
     Card(store[i].noteId, store[i].noteId,
          IF store[i].fields["EnglishSituationPrompt"] = "p1"
          THEN [type |-> 2, interval |-> 1, due |-> day + 1, lapses |-> 0,
                reps |-> 3, factor |-> 2500, mod |-> day - 1]
          ELSE [type |-> 0, interval |-> 0, due |-> day + 1, lapses |-> 3,
                reps |-> 0, factor |-> 0, mod |-> 0])]

\* get_anki_study_data, lines 411-417: the findCards request.
FindCards ==
  /\ pc = "study"
  /\ \E r \in {TransportFailure, ResultResponse(Value(StoreIds(anki)))} :
       LET card_ids == invoke_anki_connect(r)
       IN /\ all_answered' = (all_answered /\ Answered(r))
          /\ all_returned' = (all_returned /\ ~card_ids.null)
          /\ IF card_ids.null \/ card_ids.value = <<>>
             THEN ReturnZero
             ELSE pc' = "cards" /\ UNCHANGED exit_code
  /\ UNCHANGED <<startup_failed, studyVars, reportVars, run, storeVars,
                 firstFreshId, files, snapshotVars, counterVars, addVars,
                 historyVars>>

\* get_anki_study_data, lines 421-424: the cardsInfo request.
CardsInfo ==
  /\ pc = "cards"
  /\ \E r \in {TransportFailure, ResultResponse(Value(CardsOf(anki, now)))} :
       LET answer == invoke_anki_connect(r)
       IN /\ all_answered' = (all_answered /\ Answered(r))
          /\ all_returned' = (all_returned /\ ~answer.null)
          /\ IF answer.null \/ answer.value = <<>>
             THEN ReturnZero /\ UNCHANGED cards_info
             ELSE /\ pc' = "studynotes"
                  /\ cards_info' = answer.value
                  /\ UNCHANGED exit_code
  /\ UNCHANGED <<startup_failed, study_data, analysis, reportVars, run,
                 storeVars, firstFreshId, files, snapshotVars, counterVars,
                 addVars, historyVars>>

\* get_anki_study_data, lines 426-456, and main, lines 776-781: the
\* notesInfo request, the study records, and the test on their list.
StudyNotesInfo ==
  /\ pc = "studynotes"
  /\ LET note_ids_of_cards == {cards_info[i].note : i \in 1..Len(cards_info)}
     IN \E r \in {TransportFailure,
                  ResultResponse(Value(NotesWithIds(anki, note_ids_of_cards)))} :
          LET notes_info_list == invoke_anki_connect(r)
              records == study_records(cards_info, notes_info_list)
          IN /\ all_answered' = (all_answered /\ Answered(r))
             /\ all_returned' = (all_returned /\ ~notes_info_list.null)
             /\ study_data' = records
             /\ IF records # <<>>
                THEN pc' = "analyze" /\ UNCHANGED exit_code
                ELSE ReturnZero
  /\ UNCHANGED <<startup_failed, cards_info, analysis, reportVars, run,
                 storeVars, firstFreshId, files, snapshotVars, counterVars,
                 addVars, historyVars>>

\* main, lines 777-785: analyze_study_data, generate_obsidian_report and the
\* normal return.
AnalyzeAndReport ==
  /\ pc = "analyze"
  /\ LET analysis_results ==
           analyze_study_data(study_data, now, days_recent, struggle_lapses,
                              struggle_ease_factor, due_soon_days)
     IN /\ analysis' = analysis_results
        /\ report' = [written |-> TRUE, run |-> run,
                      content |-> generate_obsidian_report(analysis_results)]
  /\ ReturnZero
  /\ UNCHANGED <<startup_failed, cards_info, study_data, now, due_soon_days,
                 run, storeVars, firstFreshId, files, snapshotVars,
                 counterVars, addVars, historyVars, flagVars>>

\* The script is started again on the same directory, against the deck the
\* previous run left.  Reruns are followed after runs whose requests were all
\* carried out; a run after a failed request is a run from another initial
\* deck.
RunAgain ==
  /\ pc = "done"
  /\ exit_code = 0
  /\ run < MaxRuns
  /\ all_answered
  /\ pc' = "version"
  /\ run' = run + 1
  /\ exit_code' = -1
  /\ firstFreshId' = nextId
  /\ note_ids' = <<>>
  /\ batch_start' = 0
  /\ existing_anki_notes' = EmptyDict
  /\ processed_files_count' = 0
  /\ total_added_notes_count' = 0
  /\ updated_expressions_count' = 0
  /\ skipped_expressions_count' = 0
  /\ error_files_count' = 0
  /\ processed_expressions' = {}
  /\ orphaned_expressions' = {}
  /\ calls' = <<>>
  /\ notes_log' = <<>>
  /\ cards_info' = <<>>
  /\ study_data' = <<>>
  /\ analysis' = NoAnalysis
  /\ UNCHANGED <<startup_failed, reportVars, storeVars, files, addVars,
                 flagVars>>

Next ==
  \/ CheckVersion
  \/ CheckDeck
  \/ ValidateNoteType
  \/ FindNotes
  \/ FetchBatch
  \/ ScanFile
  \/ DeleteNotes
  \/ AddNote
  \/ AddReturn
  \/ CheckOrphans
  \/ FindCards
  \/ CardsInfo
  \/ StudyNotesInfo
  \/ AnalyzeAndReport
  \/ RunAgain

Spec == Init /\ [][Next]_vars

\* The steps of one run of the script.  The script is sequential and every
\* request it makes ends within the 30 seconds of its timeout, so a run that
\* can take a step does take it.
MainStep ==
  \/ CheckVersion
  \/ CheckDeck
  \/ ValidateNoteType
  \/ FindNotes
  \/ FetchBatch
  \/ ScanFile
  \/ DeleteNotes
  \/ AddNote
  \/ AddReturn
  \/ CheckOrphans
  \/ FindCards
  \/ CardsInfo
  \/ StudyNotesInfo
  \/ AnalyzeAndReport

\* One run of the script, from a deck of at most one note.
InitLive == Init /\ Len(anki) <= 1

SpecLive == InitLive /\ [][MainStep]_vars /\ WF_vars(MainStep)

\* Runs of the script against a deck that is empty before the first run.
InitEmpty == Init /\ anki = <<>>

SpecEmpty == InitEmpty /\ [][Next]_vars

\* ------------------------------------------- add_new_notes_to_anki alone
AddExpressions == {"", " ", "ga"}
AddPrompts == {"", " ", "p1"}

AddPromptLists ==
  {<<>>} \cup {<<a>> : a \in AddPrompts}
  \cup {<<a, b>> : a \in AddPrompts, b \in AddPrompts}
  \cup {<<a, b, c>> : a \in AddPrompts, b \in AddPrompts, c \in AddPrompts}

\* Any note_info dictionary a caller may pass, not only those that
\* extract_data_for_anki builds.
AddInputs ==
  {[ok |-> TRUE, ankiExpression |-> e, prompts |-> ps,
    fields_content |->
      [Meaning |-> "meaning", Structure |-> "structure", ExamplesJP |-> "jp",
       ExamplesEN |-> "en", UsageNotes |-> "N/A",
       ObsidianFilename |-> "notes/a.md", ObsidianModTime |-> 1,
       ObsidianVaultName |-> OBSIDIAN_VAULT_NAME],
    sourceFile |-> "notes/a.md"] :
     e \in AddExpressions,
     ps \in {q \in AddPromptLists : Len(q) <= MaxPrompts}}

InitAdd ==
  \E info \in AddInputs :
    /\ pc = "add"
    /\ run = 1
    /\ exit_code = -1
    /\ anki = <<>>
    /\ nextId = 1
    /\ firstFreshId = 1
    /\ files = <<>>
    /\ note_ids = <<>>
    /\ batch_start = 0
    /\ existing_anki_notes = EmptyDict
    /\ processed_files_count = 0
    /\ total_added_notes_count = 0
    /\ updated_expressions_count = 0
    /\ skipped_expressions_count = 0
    /\ error_files_count = 0
    /\ processed_expressions = {}
    /\ orphaned_expressions = {}
    /\ obsidian_note_data = info
    /\ op = "call"
    /\ prompt_index = 1
    /\ added_count = 0
    /\ failed_count = 0
    /\ pair_log = <<>>
    /\ calls = <<>>
    /\ notes_log = <<>>
    /\ all_answered = TRUE
    /\ all_returned = TRUE
    /\ startup_failed = FALSE
    /\ now \in RunDays
    /\ due_soon_days = due_soon_days_default
    /\ cards_info = <<>>
    /\ study_data = <<>>
    /\ analysis = NoAnalysis
    /\ report = NoReport

\* add_new_notes_to_anki, line 648: the count goes back to the caller.
AddReturnsCount ==
  /\ pc = "add"
  /\ op = "call"
  /\ prompt_index > Len(obsidian_note_data.prompts)
  /\ pc' = "returned"
  /\ UNCHANGED <<startup_failed, studyVars, reportVars, run, exit_code,
                 storeVars, firstFreshId, files, snapshotVars,
                 counterVars, addVars, historyVars, flagVars>>

NextAdd ==
  \/ AddNote
  \/ AddReturnsCount

SpecAdd == InitAdd /\ [][NextAdd]_vars

\* ------------------------------------- the study report step on its own
\* A deck for the study step: two identifiers whose order is the reverse of
\* the order of their file names, and a note without a file name.
StudyStore ==
  <<[noteId |-> 1, fields |-> RemoteFields("zz", "p1", "old", "notes/a.md", 1)],
    [noteId |-> 2, fields |-> RemoteFields("ga", "p2", "old", "notes/z.md", 1)],
    [noteId |-> 3, fields |-> RemoteFields("ga", "p1", "old", "notes/z.md", 1)],
    [noteId |-> 4, fields |-> RemoteFields("zz", "p2", "old", "", 1)]>>

\* Scheduling data a card can have on day `day`: a review card due tomorrow,
\* one due in two days with a low ease, one due in four days with three
\* lapses and no modification time, one due today, and a new card whose
\* queue position is tomorrow's day number.
Telemetries(day) ==
  {[type |-> 2, interval |-> 1, due |-> day + 1, lapses |-> 0, reps |-> 3,
    factor |-> 2500, mod |-> day - 1],
   [type |-> 2, interval |-> 2, due |-> day + 2, lapses |-> 0, reps |-> 3,
    factor |-> 1900, mod |-> day - 8],
   [type |-> 2, interval |-> 4, due |-> day + 4, lapses |-> 3, reps |-> 5,
    factor |-> 2500, mod |-> 0],
   [type |-> 2, interval |-> 7, due |-> day, lapses |-> 0, reps |-> 0,
    factor |-> 1900, mod |-> day - 7],
   [type |-> 0, interval |-> 0, due |-> day + 1, lapses |-> 0, reps |-> 0,
    factor |-> 0, mod |-> day - 30]}

\* The cardsInfo results of up to MaxCards cards of the deck.
RECURSIVE CardLists(_, _)
CardLists(day, n) ==
  IF n = 0 THEN {<<>>}
  ELSE CardLists(day, n - 1)
       \cup {Append(cards, Card(Len(cards) + 1, note, t)) :
               cards \in {c \in CardLists(day, n - 1) : Len(c) = n - 1},
               note \in 1..Len(StudyStore), t \in Telemetries(day)}

\* The due_soon_days arguments a caller of analyze_study_data passes.
DueSoonWindows == {1, due_soon_days_default}

InitStudy ==
  \E day \in RunDays, window \in DueSoonWindows :
    \E cards \in CardLists(day, MaxCards) \ {<<>>} :
      /\ pc = "studynotes"
      /\ run = 1
      /\ exit_code = -1
      /\ anki = StudyStore
      /\ nextId = Len(StudyStore) + 1
      /\ firstFreshId = Len(StudyStore) + 1
      /\ files = <<>>
      /\ note_ids = <<>>
      /\ batch_start = 0
      /\ existing_anki_notes = EmptyDict
      /\ processed_files_count = 0
      /\ total_added_notes_count = 0
      /\ updated_expressions_count = 0
      /\ skipped_expressions_count = 0
      /\ error_files_count = 0
      /\ processed_expressions = {}
      /\ orphaned_expressions = {}
      /\ obsidian_note_data = None
      /\ op = "none"
      /\ prompt_index = 0
      /\ added_count = 0
      /\ failed_count = 0
      /\ pair_log = <<>>
      /\ calls = <<>>
      /\ notes_log = <<>>
      /\ all_answered = TRUE
      /\ all_returned = TRUE
      /\ startup_failed = FALSE
      /\ now = day
      /\ due_soon_days = window
      /\ cards_info = cards
      /\ study_data = <<>>
      /\ analysis = NoAnalysis
      /\ report = NoReport

NextStudy ==
  \/ StudyNotesInfo
  \/ AnalyzeAndReport

SpecStudy == InitStudy /\ [][NextStudy]_vars

\* ================================================================== claims
\* The identifier a source file resolves to: the declared expression, or the
\* file's stem when none is declared.
IdentifierOf(f) ==
  IF f.ankiExpression \in {"", " "} THEN f.stem ELSE f.ankiExpression

\* The snapshot is final once the scan has started.
Scanning ==
  \/ pc \in {"scan", "delete", "add", "study", "cards", "studynotes", "analyze"}
  \/ (pc = "done" /\ exit_code = 0)

\* C1: every extracted note gets Create when its identifier is not a key of
\* the snapshot; otherwise Replace when the first record of the identifier's
\* group has no timestamp, or the note's timestamp is strictly greater, or
\* the note's relative path differs from that record's; otherwise Skip.
C1_DecisionRule ==
  \A n \in 1..Len(notes_log) :
    notes_log[n].extracted =>
      LET f == files[n]
          id == IdentifierOf(f)
      IN IF id \notin DOMAIN existing_anki_notes
         THEN notes_log[n].decision = "Create"
         ELSE LET first == existing_anki_notes[id][1]
              IN IF \/ first.obsidianModTime = 0
                    \/ f.mtime > first.obsidianModTime
                    \/ f.path # first.obsidianFilename
                 THEN notes_log[n].decision = "Replace"
                 ELSE notes_log[n].decision = "Skip"

\* C1 witness: a note was decided Replace only because its path differs from
\* the first remote record's (the remote timestamp is present and not older).
C1_Witness ==
  \E n \in 1..Len(notes_log) :
    /\ notes_log[n].extracted
    /\ notes_log[n].decision = "Replace"
    /\ IdentifierOf(files[n]) \in DOMAIN existing_anki_notes
    /\ LET first == existing_anki_notes[IdentifierOf(files[n])][1]
       IN /\ first.obsidianModTime # 0
          /\ files[n].mtime <= first.obsidianModTime
          /\ files[n].path # first.obsidianFilename

\* Positions of the requests of the run made for file n.
CallsOf(n) == {j \in 1..Len(calls) : calls[j].file = n}
AddCallsOf(n) == {j \in CallsOf(n) : calls[j].action = "addNote"}
DeleteCallsOf(n) == {j \in CallsOf(n) : calls[j].action = "deleteNotes"}

\* C2: with every remote call succeeding, a second run over unchanged sources
\* issues no create and no delete call.
C2_SecondRunIdle ==
  (run = 2 /\ all_answered /\ all_returned) => calls = <<>>

\* A remote record that was in the deck when the run started / that the run
\* created.
Stale(note) == note.noteId < firstFreshId
Fresh(note) == note.noteId >= firstFreshId

\* C3: the deck never holds a stale record and a record created by the run
\* for one identifier.
C3_NoStaleFreshMix ==
  \A i \in 1..Len(anki), j \in 1..Len(anki) :
    ~(/\ Stale(anki[i])
      /\ Fresh(anki[j])
      /\ anki[i].fields["AnkiExpression"] = anki[j].fields["AnkiExpression"])

\* The snapshot holds every record of the deck that has an identifier, as the
\* deck was when the run started.
SnapshotComplete ==
  \A i \in 1..Len(anki) :
    (Stale(anki[i]) /\ anki[i].fields["AnkiExpression"] # "") =>
      /\ anki[i].fields["AnkiExpression"] \in DOMAIN existing_anki_notes
      /\ \E k \in 1..Len(existing_anki_notes[anki[i].fields["AnkiExpression"]]) :
           existing_anki_notes[anki[i].fields["AnkiExpression"]][k].noteId
             = anki[i].noteId

\* The mix of C3 arises only in runs that decide against a snapshot which
\* misses records of the deck.
C3_MixOnlyAfterLostSnapshot ==
  (Scanning /\ ~C3_NoStaleFreshMix) => ~SnapshotComplete

\* C4: every addNote request of a Replace comes after exactly one deleteNotes
\* request of the same Replace, which carried all note ids of the identifier's
\* snapshot group and returned success.
C4_DeleteBeforeCreate ==
  \A j \in 1..Len(calls) :
    (calls[j].action = "addNote" /\ calls[j].op = "Replace") =>
      LET n == calls[j].file
          group == existing_anki_notes[calls[j].expression]
      IN /\ Cardinality(DeleteCallsOf(n)) = 1
         /\ \A d \in DeleteCallsOf(n) :
              /\ d < j
              /\ calls[d].expression = calls[j].expression
              /\ Len(calls[d].notes) = Len(group)
              /\ \A k \in 1..Len(group) : calls[d].notes[k] = group[k].noteId
              /\ Answered(calls[d].response)
              /\ ~calls[d].returned.null

\* C4 witness: a Replace of a group of two records has issued a create.
C4_Witness ==
  \E j \in 1..Len(calls) :
    /\ calls[j].action = "addNote"
    /\ calls[j].op = "Replace"
    /\ Len(existing_anki_notes[calls[j].expression]) = 2

\* The records the notes of the log were returned as added, in total.
RECURSIVE SumAdded(_)
SumAdded(log) ==
  IF log = <<>> THEN 0 ELSE Head(log).added + SumAdded(Tail(log))

Blank(str) == str \in {"", " "}

\* The non-blank prompts of a source file, in order.
RECURSIVE PairsOf(_)
PairsOf(raw) ==
  IF raw = <<>> THEN <<>>
  ELSE IF Blank(Head(raw)) THEN PairsOf(Tail(raw))
       ELSE <<Head(raw)>> \o PairsOf(Tail(raw))

\* The Create of file n is over and each of its create calls succeeded.
CreateSucceeded(n) ==
  /\ notes_log[n].done
  /\ notes_log[n].decision = "Create"
  /\ \A j \in AddCallsOf(n) : Answered(calls[j].response)

\* What the Create of file n issued and left in the deck: one call and one
\* record per pair, in pair order, each with the identifier, its own prompt
\* and the other field values of the note; the returned count is N.
CreateYieldsPairs(n) ==
  LET f == files[n]
      pairs == PairsOf(f.prompts)
      N == Len(pairs)
  IN /\ CallsOf(n) = AddCallsOf(n)
     /\ Cardinality(AddCallsOf(n)) = N
     /\ notes_log[n].added = N
     /\ \A i \in 1..N :
          LET j == CHOOSE j \in AddCallsOf(n) :
                     Cardinality({k \in AddCallsOf(n) : k < j}) = i - 1
              sent == calls[j].note.fields
          IN /\ sent["AnkiExpression"] = IdentifierOf(f)
             /\ sent["EnglishSituationPrompt"] = pairs[i]
             /\ sent["Meaning"] = f.meaning
             /\ sent["Structure"] = f.structure
             /\ sent["ExamplesJP"] = f.examplesJP
             /\ sent["ExamplesEN"] = f.examplesEN
             /\ sent["UsageNotes"] = f.usageNotes
             /\ sent["ObsidianFilename"] = f.path
             /\ sent["ObsidianModTime"] = f.mtime
             /\ sent["ObsidianVaultName"] = OBSIDIAN_VAULT_NAME
             /\ \E k \in 1..Len(anki) :
                  /\ anki[k].noteId = calls[j].returned.value
                  /\ anki[k].fields = sent
                  /\ Cardinality({m \in 1..Len(anki) :
                                    /\ m < k
                                    /\ Fresh(anki[m])
                                    /\ \E c \in AddCallsOf(n) :
                                         calls[c].returned.value = anki[m].noteId})
                       = i - 1

\* Each record the Create of file n left carries the target of its pair in
\* one of its text fields.
CreateCarriesTargets(n) ==
  LET f == files[n]
      N == Len(PairsOf(f.prompts))
  IN \A i \in 1..N :
       /\ i <= Len(f.targets)
       /\ \A j \in AddCallsOf(n) :
            Cardinality({k \in AddCallsOf(n) : k < j}) = i - 1 =>
              \E fld \in ANKI_NOTE_FIELDS \ {"ObsidianModTime"} :
                calls[j].note.fields[fld] = f.targets[i]

Extractable(f) == f.fm /\ PairsOf(f.prompts) # <<>>

\* The identifiers of the snapshot that no extractable file of the scan has.
Orphans ==
  {e \in DOMAIN existing_anki_notes :
     \A n \in 1..Len(files) :
       Extractable(files[n]) => IdentifierOf(files[n]) # e}

\* C7: the reported orphan set is the set of snapshot identifiers that no
\* extracted note carried, and no create or delete call of the run is made
\* for such an identifier or for a record of its group.
C7_OrphansReportedNotTouched ==
  /\ (pc = "study" \/ (pc = "done" /\ exit_code = 0)) =>
       orphaned_expressions = Orphans
  /\ Scanning =>
       \A j \in 1..Len(calls) :
         /\ calls[j].expression \notin Orphans
         /\ calls[j].action = "deleteNotes" =>
              \A k \in 1..Len(calls[j].notes) :
                \A e \in Orphans :
                  \A m \in 1..Len(existing_anki_notes[e]) :
                    existing_anki_notes[e][m].noteId # calls[j].notes[k]

\* C7 witness: a run ended with an orphan reported after a Replace of another
\* identifier deleted and created records.
C7_Witness ==
  /\ pc = "done"
  /\ exit_code = 0
  /\ orphaned_expressions # {}
  /\ \E j \in 1..Len(calls) : calls[j].action = "deleteNotes"
  /\ \E j \in 1..Len(calls) : calls[j].action = "addNote"

\* The failures the notes of the log were counted for, in total.
RECURSIVE SumErrors(_)
SumErrors(log) ==
  IF log = <<>> THEN 0 ELSE Head(log).errors + SumErrors(Tail(log))

\* File n was rejected: no local record, no remote call, one failure counted.
Rejected(n) ==
  /\ ~notes_log[n].extracted
  /\ notes_log[n].decision = "Failed"
  /\ CallsOf(n) = {}
  /\ notes_log[n].errors = 1

C9_RejectIffBothEmpty ==
  \A i \in 1..Len(pair_log) :
    ~pair_log[i] <=>
      (Blank(obsidian_note_data.ankiExpression)
       /\ Blank(obsidian_note_data.prompts[i]))

\* C9 amended: a pair is rejected before submission exactly when its prompt
\* is the empty string, or both its identifier and its prompt are blank; every
\* other pair is submitted.
C9_RejectRule ==
  /\ \A i \in 1..Len(pair_log) :
       ~pair_log[i] <=>
         \/ obsidian_note_data.prompts[i] = ""
         \/ (Blank(obsidian_note_data.ankiExpression)
             /\ Blank(obsidian_note_data.prompts[i]))
  /\ Len(calls) = Cardinality({i \in 1..Len(pair_log) : pair_log[i]})
  /\ failed_count >= Cardinality({i \in 1..Len(pair_log) : ~pair_log[i]})

\* C9 witness: a call returned after it rejected a pair with an empty prompt
\* and a non-empty identifier and submitted another pair.
C9_Witness ==
  /\ pc = "returned"
  /\ obsidian_note_data.ankiExpression = "ga"
  /\ \E i \in 1..Len(pair_log) :
       ~pair_log[i] /\ obsidian_note_data.prompts[i] = ""
  /\ \E i \in 1..Len(pair_log) : pair_log[i]

\* C10: a create call rejected as a duplicate is counted neither in the
\* failed count of its note nor in the failure counter of the run.
C10_DuplicateNotCounted ==
  \A n \in 1..Len(notes_log) :
    (notes_log[n].done /\ notes_log[n].decision \in {"Create", "Replace"}) =>
      /\ notes_log[n].failed =
           Cardinality({j \in AddCallsOf(n) :
                          /\ calls[j].returned.null
                          /\ calls[j].response.error # "duplicate"})
      /\ (/\ AddCallsOf(n) # {}
          /\ \A j \in AddCallsOf(n) :
               \/ Answered(calls[j].response)
               \/ calls[j].response.error = "duplicate")
         => notes_log[n].errors = 0

\* A request made for file n was not carried out by the store.
RequestFailed(n) == \E j \in CallsOf(n) : ~Answered(calls[j].response)

\* C11: every recoverable failure of the run adds one to the failure counter
\* of the summary (a failed extraction, a Replace aborted by its failed
\* delete, a Replace or Create with a failed create call), and every scanned
\* note is accounted for as created, replaced, skipped or failed.
C11_EveryFailureCounted ==
  /\ error_files_count = SumErrors(notes_log)
  /\ \A n \in 1..Len(notes_log) :
       notes_log[n].done =>
         /\ (~notes_log[n].extracted \/ RequestFailed(n)) =>
              notes_log[n].errors = 1
         /\ \/ notes_log[n].errors = 1
            \/ notes_log[n].decision = "Skip"
            \/ notes_log[n].added > 0

\* C12 as stated: once a create call for a pair has failed, no further pair
\* of that identifier is submitted in the run.
C12_FailedCreateAbortsOperation ==
  \A j \in 1..Len(calls) :
    (calls[j].action = "addNote" /\ ~Answered(calls[j].response)) =>
      \A k \in 1..Len(calls) :
        (k > j /\ calls[k].action = "addNote") =>
          calls[k].expression # calls[j].expression

\* The Create, or the Replace past its delete, of file n is over.
CreatePhaseOver(n) ==
  /\ notes_log[n].done
  /\ \/ notes_log[n].decision = "Create"
     \/ /\ notes_log[n].decision = "Replace"
        /\ \A d \in DeleteCallsOf(n) : ~calls[d].returned.null

\* C12 amended: a failed create call loses its own pair only; every pair of
\* the note is submitted in order whatever the earlier calls returned, the
\* returned count is the number of calls that returned a value, and every
\* other call adds one to the failed count of the note.
C12_FailedCreateLosesOnlyItsPair ==
  \A n \in 1..Len(notes_log) :
    CreatePhaseOver(n) =>
      LET pairs == PairsOf(files[n].prompts)
      IN /\ Cardinality(AddCallsOf(n)) = Len(pairs)
         /\ \A j \in AddCallsOf(n) :
              calls[j].note.fields["EnglishSituationPrompt"] =
                pairs[Cardinality({k \in AddCallsOf(n) : k < j}) + 1]
         /\ notes_log[n].added =
              Cardinality({j \in AddCallsOf(n) : ~calls[j].returned.null})
         /\ notes_log[n].failed =
              Cardinality({j \in AddCallsOf(n) : calls[j].returned.null})

\* C12 witness: the first create call of a note timed out and the create call
\* for its second pair was made and succeeded.
C12_Witness ==
  \E n \in 1..Len(notes_log) :
    /\ CreatePhaseOver(n)
    /\ \E j \in AddCallsOf(n), k \in AddCallsOf(n) :
         /\ j < k
         /\ ~calls[j].response.transport
         /\ Answered(calls[k].response)
    /\ notes_log[n].added = 1
    /\ notes_log[n].failed = 1

\* C13: main returns 1 exactly when a startup check fails (the version
\* request is not answered, the deck can be neither found nor created, the
\* note type or one of its fields is missing), and then no addNote or
\* deleteNotes request is made; every other run that ends returns 0, whatever
\* its count of failures.
C13_ExitCodes ==
  /\ startup_failed => (pc = "done" /\ exit_code = 1)
  /\ pc = "done" => exit_code = (IF startup_failed THEN 1 ELSE 0)
  /\ pc # "done" => exit_code = -1
  /\ exit_code = 1 => (calls = <<>> /\ notes_log = <<>>)

\* C13 witness: every startup request was answered, the note type lacks a
\* required field, and main returned 1.
C13_Witness ==
  /\ pc = "done"
  /\ exit_code = 1
  /\ startup_failed
  /\ all_answered

\* C14: invoke_anki_connect hands None to its caller exactly when the
\* transport failed or the response carried an error; a deleteNotes request
\* the store carried out is never taken by the Replace for a failed one.
C14_FailureIffNotAnswered ==
  \A j \in 1..Len(calls) :
    /\ calls[j].returned = invoke_anki_connect(calls[j].response)
    /\ calls[j].returned.null <=> ~Answered(calls[j].response)
    /\ (/\ calls[j].action = "deleteNotes"
        /\ Answered(calls[j].response)
        /\ notes_log[calls[j].file].done)
       => AddCallsOf(calls[j].file) # {}

\* The study step of the run has classified the study records.
Analyzed == pc = "done" /\ report.written /\ report.run = run

\* Card i of the cardsInfo result became a study record.
Studied(i) ==
  \E k \in 1..Len(study_data) : study_data[k].cardId = cards_info[i].cardId

\* The (sourcePath, prompt, identifier) triple of card i, read from its note.
TripleOf(i) ==
  LET note == anki[CHOOSE m \in 1..Len(anki) :
                     anki[m].noteId = cards_info[i].note]
  IN <<note.fields["ObsidianFilename"], note.fields["EnglishSituationPrompt"],
       note.fields["AnkiExpression"]>>

InBucket(t, bucket) == \E k \in 1..Len(bucket) : bucket[k] = t

\* Card i is a review card.
IsReview(i) == cards_info[i].type = 2

\* C15: a study record is in the due-soon bucket if and only if its card is
\* a review card and 0 < due - today <= N; a new or learning card never puts
\* its record there.
C15_DueSoonOnlyReview ==
  Analyzed =>
    \A i \in 1..Len(cards_info) :
      Studied(i) =>
        (InBucket(TripleOf(i), analysis.due_soon) <=>
           \E j \in 1..Len(cards_info) :
             /\ Studied(j)
             /\ TripleOf(j) = TripleOf(i)
             /\ IsReview(j)
             /\ 0 < cards_info[j].due - now
             /\ cards_info[j].due - now <= due_soon_days)

\* The due-soon rule the code applies, whatever the type of the card.
C15_DueSoonWhateverType ==
  Analyzed =>
    \A i \in 1..Len(cards_info) :
      Studied(i) =>
        (InBucket(TripleOf(i), analysis.due_soon) <=>
           \E j \in 1..Len(cards_info) :
             /\ Studied(j)
             /\ TripleOf(j) = TripleOf(i)
             /\ 0 < cards_info[j].due - now
             /\ cards_info[j].due - now <= due_soon_days)

\* C16 as stated: a review card due one day after today (due 105, today 104)
\* is in due-soon when the window is 3 and is not when the window is 1.
C16_IncludedAt3ExcludedAt1 ==
  Analyzed =>
    \A i \in 1..Len(cards_info) :
      (Studied(i) /\ IsReview(i) /\ cards_info[i].due - now = 1) =>
        /\ due_soon_days = 3 => InBucket(TripleOf(i), analysis.due_soon)
        /\ due_soon_days = 1 => ~InBucket(TripleOf(i), analysis.due_soon)

\* C16 amended: the window (0, N] is closed at N.  A review card due one day
\* after today is in due-soon when the window is 3 and when it is 1; one due
\* two days after today is in due-soon when the window is 3 and, no card of
\* its triple being due tomorrow, is not when the window is 1.
C16_WindowClosedAtN ==
  Analyzed =>
    \A i \in 1..Len(cards_info) :
      (Studied(i) /\ IsReview(i)) =>
        /\ cards_info[i].due - now = 1 =>
             InBucket(TripleOf(i), analysis.due_soon)
        /\ (cards_info[i].due - now = 2 /\ due_soon_days = 3) =>
             InBucket(TripleOf(i), analysis.due_soon)
        /\ (/\ cards_info[i].due - now = 2
            /\ due_soon_days = 1
            /\ \A j \in 1..Len(cards_info) :
                 (Studied(j) /\ TripleOf(j) = TripleOf(i)) =>
                   cards_info[j].due - now # 1)
           => ~InBucket(TripleOf(i), analysis.due_soon)

\* C16 witness: with a window of 1, a review card due 105 on day 104 is in
\* due-soon and a review card due 106 is not.
C16_Witness ==
  /\ Analyzed
  /\ due_soon_days = 1
  /\ now = 104
  /\ \E i \in 1..Len(cards_info), j \in 1..Len(cards_info) :
       /\ Studied(i) /\ IsReview(i) /\ cards_info[i].due = 105
       /\ InBucket(TripleOf(i), analysis.due_soon)
       /\ Studied(j) /\ IsReview(j) /\ cards_info[j].due = 106
       /\ ~InBucket(TripleOf(j), analysis.due_soon)

\* x comes strictly before y in the order of (identifier, sourcePath, prompt).
TripleBefore(x, y) ==
  LET less(a, b) == StrRank(a) < StrRank(b)
  IN \/ less(x[3], y[3])
     \/ (x[3] = y[3] /\ less(x[1], y[1]))
     \/ (x[3] = y[3] /\ x[1] = y[1] /\ less(x[2], y[2]))

\* The orders in which the study records of the run can be listed.
Reorderings(records) ==
  {[i \in 1..Len(records) |-> records[f[i]]] :
     f \in Permutations(1..Len(records))}

\* C17: each bucket analyze_study_data returns holds a triple at most once,
\* ascends in the order of (identifier, sourcePath, prompt), and is the same
\* for every permutation of the list of study records.
C17_BucketsSortedUnique ==
  Analyzed =>
    /\ \A bucket \in {analysis.recent, analysis.struggling, analysis.due_soon} :
         /\ \A i \in 1..Len(bucket), j \in 1..Len(bucket) :
              i # j => bucket[i] # bucket[j]
         /\ \A i \in 1..(Len(bucket) - 1) :
              TripleBefore(bucket[i], bucket[i + 1])
    /\ \A records \in Reorderings(study_data) :
         analyze_study_data(records, now, days_recent, struggle_lapses,
                            struggle_ease_factor, due_soon_days) = analysis

\* C17 witness: two cards were recently reviewed, the card listed first has
\* the greater identifier and the smaller path, and its triple is second in
\* the bucket.
C17_Witness ==
  /\ Analyzed
  /\ Len(cards_info) >= 2
  /\ Len(analysis.recent) = 2
  /\ analysis.recent[1] = TripleOf(2)
  /\ analysis.recent[2] = TripleOf(1)
  /\ StrRank(TripleOf(1)[1]) < StrRank(TripleOf(2)[1])

\* A section of the report holds the none marker, or links grouped under
\* identifier headings (a heading opens the section, every heading is
\* followed by a link).
SectionShaped(lines) ==
  \/ lines = <<[kind |-> "none"]>>
  \/ /\ lines # <<>>
     /\ lines[1].kind = "heading"
     /\ lines[Len(lines)].kind = "link"
     /\ \A i \in 1..Len(lines) : lines[i].kind \in {"heading", "link"}
     /\ \A i \in 1..(Len(lines) - 1) :
          lines[i].kind = "heading" => lines[i + 1].kind = "link"

ReportShaped ==
  /\ SectionShaped(report.content.recent)
  /\ SectionShaped(report.content.struggling)
  /\ SectionShaped(report.content.due_soon)

\* C18: every run that ends with exit code 0 has written the report, and each
\* of its three sections holds identifier-grouped links or the none marker.
C18_ReportWrittenEachRun ==
  (pc = "done" /\ exit_code = 0) =>
    (report.written /\ report.run = run /\ ReportShaped)

\* The report as the code writes it: only by a run whose list of study
\* records is not empty, and then with three shaped sections.
C18_ReportWrittenWhenStudied ==
  /\ (pc = "done" /\ exit_code = 0) =>
       ((report.written /\ report.run = run) <=> study_data # <<>>)
  /\ report.written => ReportShaped

\* The scan loop has visited the files before position n + 1, once each and in
\* order: a file that extracts has its one decision, a file that does not is
\* counted once and has no request made for it.
VisitedOnceInOrder ==
  /\ Len(notes_log) = processed_files_count
  /\ processed_files_count <= Len(files)
  /\ \A n \in 1..Len(notes_log) :
       /\ IF Extractable(files[n])
          THEN /\ notes_log[n].extracted
               /\ notes_log[n].expression = IdentifierOf(files[n])
               /\ notes_log[n].decision \in {"Create", "Replace", "Skip"}
               /\ notes_log[n].decision = "Skip" => CallsOf(n) = {}
          ELSE Rejected(n)
       /\ n < Len(notes_log) => notes_log[n].done
  /\ \A j \in 1..Len(calls), k \in 1..Len(calls) :
       j < k => calls[j].file <= calls[k].file
  /\ \A j \in 1..Len(calls) : calls[j].file \in 1..Len(notes_log)
  /\ (pc \in {"study", "cards", "studynotes", "analyze"}
      \/ (pc = "done" /\ exit_code = 0)) =>
       /\ Len(notes_log) = Len(files)
       /\ \A n \in 1..Len(notes_log) : notes_log[n].done

\* C19: every run that passes the startup checks ends, whatever fails on the
\* way, and its scan loop visits every scanned note exactly once, in order:
\* one decision for each note that extracts, one counted failure and no
\* request for each note that does not.
C19_RunEndsEveryNoteVisitedOnce ==
  (pc = "find") ~> (pc = "done" /\ exit_code = 0 /\ VisitedOnceInOrder)

\* C19 witness: a run of two notes ended; the first note failed extraction,
\* the second had its delete carried out and its create call time out.
C19_Witness ==
  /\ pc = "done"
  /\ exit_code = 0
  /\ Len(files) = 2
  /\ Len(notes_log) = 2
  /\ ~Extractable(files[1])
  /\ notes_log[2].decision = "Replace"
  /\ \E j \in AddCallsOf(2) : ~calls[j].response.transport

\* C20: a run that reaches the scan decides against a snapshot that holds
\* every record of the deck with an identifier, grouped under it, also after
\* a failed findNotes or notesInfo request; so no Create is made for an
\* identifier that has records in the deck, and no Replace deletes a part of
\* a group only.
C20_SnapshotFaithful ==
  Scanning =>
    /\ SnapshotComplete
    /\ \A j \in 1..Len(calls) :
         (calls[j].action = "addNote" /\ calls[j].op = "Create") =>
           \A i \in 1..Len(anki) :
             Stale(anki[i]) =>
               anki[i].fields["AnkiExpression"] # calls[j].expression
    /\ \A j \in 1..Len(calls) :
         (calls[j].action = "deleteNotes" /\ Answered(calls[j].response)) =>
           \A i \in 1..Len(anki) :
             Stale(anki[i]) =>
               anki[i].fields["AnkiExpression"] # calls[j].expression

\* A run whose findNotes and notesInfo requests all returned their lists does
\* decide against the whole deck.
C20_FaithfulWhenFetched ==
  (Scanning /\ all_returned) => C20_SnapshotFaithful

\* The records of the deck that share an identifier carry one source path and
\* one source modification time.
GroupsHomogeneous ==
  \A i \in 1..Len(anki), j \in 1..Len(anki) :
    anki[i].fields["AnkiExpression"] = anki[j].fields["AnkiExpression"] =>
      /\ anki[i].fields["ObsidianFilename"] = anki[j].fields["ObsidianFilename"]
      /\ anki[i].fields["ObsidianModTime"] = anki[j].fields["ObsidianModTime"]

\* No two files of the scan resolve to one identifier.
DistinctIdentifiers ==
  \A m \in 1..Len(files), n \in 1..Len(files) :
    (m # n /\ Extractable(files[m]) /\ Extractable(files[n])) =>
      IdentifierOf(files[m]) # IdentifierOf(files[n])

\* C21: from an empty deck, after any number of runs whose requests all
\* succeeded, the records that share an identifier were all created from one
\* local record (same source path, same source modification time), also when
\* two source notes resolve to one identifier.
C21_GroupsHomogeneous ==
  (pc = "done" /\ exit_code = 0 /\ all_answered /\ all_returned) =>
    GroupsHomogeneous

\* Groups are homogeneous after such runs when the notes of the scan have
\* distinct identifiers.
C21_HomogeneousWhenDistinct ==
  (pc = "done" /\ exit_code = 0 /\ all_answered /\ all_returned
   /\ DistinctIdentifiers) => GroupsHomogeneous

====
